---- MODULE Spec2Model ----
(***************************************************************************)
(* AccuWeather -> SQS -> BigPanda integration.                             *)
(*                                                                         *)
(* The model covers the consumer path of src/src/app.ts (the two queue     *)
(* consumers and their message handlers), the retry policy handleSQSError  *)
(* of src/src/error/error-handlers.ts, SQSHandler.sendMessage and          *)
(* SQSHandler.startConsumer of the sqs-handler, BigPandaAPI.sendAlert, the *)
(* formatter AccuWeatherAPI.formatConditionsAsBigPandaAlert, the POST      *)
(* /alert handler and the startup batch that posts to it.                  *)
(*                                                                         *)
(* JavaScript values are modelled by what the code does with them: a       *)
(* string is a sequence of one-character strings, a number is a record     *)
(* that is either NaN or an integer, a message body is one of a few JSON   *)
(* texts together with the value JSON.parse gives for it.                  *)
(***************************************************************************)
EXTENDS Integers, Sequences, FiniteSets, TLC

VARIABLES
    queue,      \* queue[q]: the messages visible on queue q
    leased,     \* leased[q]: the messages received from q and not yet deleted
    acking,     \* acking[q]: the message consumer q is deleting, or NoMessage
    deliveries, \* pending BigPanda POSTs: the promise returned by sendAlert
    sends,      \* pending SQS sendMessage calls: the promise of sendMessage
    nextId,     \* the next SQS MessageId
    posts,      \* number of POST /alert requests served so far
    running,    \* whether the process is alive
    crashes,    \* number of process stops so far
    env,        \* process.env: whether BIGPANDA_API_KEY is set, the prompt answer
    log,        \* the kinds of lines written to the console
    hist,       \* history of the run: what happened to each message
    fmt,        \* the calls of formatConditionsAsBigPandaAlert: the
                \* arguments, and what each call gave its caller
    reqs        \* the POST /alert requests of the startup batch

vars == <<queue, leased, acking, deliveries, sends, nextId, posts, running,
          crashes, env, log, hist, fmt, reqs>>

----------------------------------------------------------------------------
(* Bounds of the model *)

\* largest retry budget carried by a message that is already on the primary
\* queue when the process starts
MaxBudget == 2

\* number of POST /alert requests served
MaxPosts == 1

\* number of times the process stops and is started again
MaxCrashes == 1

\* number of copies of one logical message the queues accept
MaxCopies == 8

\* the values Math.random() takes are k / RandomGrid, k in 0..RandomGrid - 1
RandomGrid == 101

\* number of locations of the startup batch
MaxLocations == 2

\* number of calls of sendMessage made by a caller other than the program
MaxCalls == 2

----------------------------------------------------------------------------
(* JavaScript numbers and strings *)

NaN == [nan |-> TRUE, v |-> 0]

Num(i) == [nan |-> FALSE, v |-> i]

DigitChars == <<"0", "1", "2", "3", "4", "5", "6", "7", "8", "9">>

IsDigit(c) == \E i \in 1..10 : DigitChars[i] = c

DigitVal(c) == (CHOOSE i \in 1..10 : DigitChars[i] = c) - 1

IsSpace(c) == c = " "

RECURSIVE SkipSpaces(_)
SkipSpaces(s) ==
    IF s # <<>> /\ IsSpace(Head(s)) THEN SkipSpaces(Tail(s)) ELSE s

RECURSIVE DigitPrefix(_, _, _)
\* the value of the longest prefix of digits of s, after acc; seen tells
\* whether a digit was read
DigitPrefix(s, acc, seen) ==
    IF s # <<>> /\ IsDigit(Head(s))
    THEN DigitPrefix(Tail(s), 10 * acc + DigitVal(Head(s)), TRUE)
    ELSE [seen |-> seen, v |-> acc]

\* parseInt(string): leading white space is skipped, then an optional sign,
\* then decimal digits up to the first character that is none; NaN when
\* there is no digit.  parseInt(undefined) is NaN.
ParseInt(sv) ==
    IF sv.kind # "string" THEN NaN
    ELSE LET t == SkipSpaces(sv.StringValue)
             neg == t # <<>> /\ Head(t) = "-"
             u == IF t # <<>> /\ Head(t) \in {"-", "+"} THEN Tail(t) ELSE t
             d == DigitPrefix(u, 0, FALSE)
         IN  IF d.seen THEN Num(IF neg THEN 0 - d.v ELSE d.v) ELSE NaN

RECURSIVE NatToString(_)
NatToString(i) ==
    IF i < 10 THEN <<DigitChars[i + 1]>>
    ELSE NatToString(i \div 10) \o <<DigitChars[(i % 10) + 1]>>

\* the template literal `${n}` of a number
NumToString(n) ==
    IF n.nan THEN <<"N", "a", "N">>
    ELSE IF n.v < 0 THEN <<"-">> \o NatToString(0 - n.v)
    ELSE NatToString(n.v)

\* !n of a number: 0 and NaN are falsy
Falsy(n) == n.nan \/ n.v = 0

RECURSIVE TrimStart(_)
TrimStart(s) == IF s # <<>> /\ IsSpace(Head(s)) THEN TrimStart(Tail(s)) ELSE s

RECURSIVE TrimEnd(_)
TrimEnd(s) ==
    IF s # <<>> /\ IsSpace(s[Len(s)]) THEN TrimEnd(SubSeq(s, 1, Len(s) - 1)) ELSE s

\* String.prototype.trim
Trim(s) == TrimEnd(TrimStart(s))

\* the test "!s || s.trim() === ''" of a string that may be unset; an unset
\* value and the empty string both take the first branch and are both <<>>
IsBlank(s) == s = <<>> \/ Trim(s) = <<>>

----------------------------------------------------------------------------
(* Messages *)

QueueNames == {"primary", "dlq"}

\* the MessageAttributes of a received message, as far as the consumer asks
\* for them (messageAttributeNames: ["Retries"]):
\*   kind "absent":   the message has no MessageAttributes
\*   kind "nostring": a Retries attribute without a StringValue
\*   kind "string":   a Retries attribute and its StringValue
NoAttributes == [kind |-> "absent", StringValue |-> <<>>]

NoStringValue == [kind |-> "nostring", StringValue |-> <<>>]

RetriesAttr(s) == [kind |-> "string", StringValue |-> s]

\* message bodies, abbreviated JSON texts: "h" stands for a host member with
\* a value, "s" for a status member with a value, "b" for a status member
\* whose value is a blank string, "g" for a host member whose value is a
\* blank string
AlertBody == <<"{", "h", "s", "}">>

NoHostBody == <<"{", "s", "}">>

BlankStatusBody == <<"{", "h", "b", "}">>

NoStatusBody == <<"{", "h", "}">>

BlankHostBody == <<"{", "g", "s", "}">>

ArrayBody == <<"[", "]">>

NullBody == <<"n", "u", "l", "l">>

NotJsonBody == <<"<", ">">>

Bodies ==
    {AlertBody, NoHostBody, BlankStatusBody, NoStatusBody, BlankHostBody,
     ArrayBody, NullBody, NotJsonBody}

\* JSON.parse(message.Body): throws a SyntaxError on a text that is not JSON
JSONParse(body) ==
    CASE body = AlertBody ->
            [ok |-> TRUE, type |-> "object",
             fields |-> [host |-> <<"N", "Y">>, status |-> <<"o", "k">>]]
      [] body = NoHostBody ->
            [ok |-> TRUE, type |-> "object", fields |-> [status |-> <<"o", "k">>]]
      [] body = BlankStatusBody ->
            [ok |-> TRUE, type |-> "object",
             fields |-> [host |-> <<"N", "Y">>, status |-> <<" ">>]]
      [] body = NoStatusBody ->
            [ok |-> TRUE, type |-> "object", fields |-> [host |-> <<"N", "Y">>]]
      [] body = BlankHostBody ->
            [ok |-> TRUE, type |-> "object",
             fields |-> [host |-> <<" ">>, status |-> <<"o", "k">>]]
      [] body = ArrayBody -> [ok |-> TRUE, type |-> "array", fields |-> <<>>]
      [] body = NullBody -> [ok |-> TRUE, type |-> "null", fields |-> <<>>]
      [] OTHER -> [ok |-> FALSE, type |-> "SyntaxError", fields |-> <<>>]

\* an SQS message; id is its MessageId, kept unique as the pair of the
\* logical message (root) and the number of the copy
Message(root, copy, body, attr) ==
    [id |-> <<root, copy>>, root |-> root, Body |-> body, Retries |-> attr]

NoMessage == Message(0, 0, NullBody, NoAttributes)

----------------------------------------------------------------------------
(* BigPandaAPI.sendAlert *)

\* the required fields without "status"
RequiredFieldsHostOnly == {"host"}

RequiredFields == {"host", "status"}

\* the synchronous part of sendAlert: "throw" when a BigPandaError is thrown
\* before the request is made, "POST" when got() is called and its promise
\* returned
sendAlert(appKey, alert) ==
    IF IsBlank(appKey) THEN "throw"
    ELSE IF alert.type = "null" THEN "throw"
    ELSE IF alert.type = "array" THEN "throw"
    ELSE IF \E f \in RequiredFields :
                f \notin DOMAIN alert.fields \/ IsBlank(alert.fields[f])
         THEN "throw"
    ELSE "POST"

----------------------------------------------------------------------------
(* Errors a rejected promise carries *)

\* a got RequestError or TimeoutError: no response
RequestError == [response |-> FALSE, bodyType |-> "none", hasResponse |-> FALSE,
                 status |-> <<>>, Message |-> <<>>]

\* a got HTTPError whose body is BigPanda's error JSON {response: {status}}
HTTPErrorJson == [response |-> TRUE, bodyType |-> "object", hasResponse |-> TRUE,
                  status |-> <<"e", "r", "r">>, Message |-> <<>>,
                  statusCode |-> 400]

\* a got HTTPError whose body is not JSON (a gateway's text page): the body
\* is left a string, which has no "response" member
HTTPErrorText == [response |-> TRUE, bodyType |-> "string", hasResponse |-> FALSE,
                  status |-> <<>>, Message |-> <<>>, statusCode |-> 502]

\* an AWS SDK error: no response member
AWSError == [response |-> FALSE, bodyType |-> "none", hasResponse |-> FALSE,
             status |-> <<>>, Message |-> <<>>]

DeliveryErrors == {RequestError, HTTPErrorJson, HTTPErrorText}

\* parseHttpError: threw tells that reading body["response"]["status"] of a
\* body without a "response" member raised a TypeError
parseHttpError(errorSource, response) ==
    LET threw == errorSource = "BigPanda API" /\ ~response.hasResponse
        detailedMessage ==
            CASE errorSource = "AccuWeather API" -> response.Message
              [] errorSource = "BigPanda API" -> response.status
              [] OTHER -> <<>>
    IN  [threw |-> threw,
         statusCode |-> response.statusCode,
         errorMessage |->
            IF ~IsBlank(detailedMessage) THEN "detail"
            ELSE IF response.bodyType = "string" THEN "body"
            ELSE "statusMessage"]

\* handleApiError: the lines it logs, and whether it threw
handleApiError(errorSource, error) ==
    IF error.response
    THEN LET p == parseHttpError(errorSource, error)
         IN  [threw |-> p.threw,
              lines |-> IF p.threw THEN {} ELSE {"HTTP Error"}]
    ELSE [threw |-> FALSE, lines |-> {"error.name error.message"}]

----------------------------------------------------------------------------
(* SQSHandler.sendMessage *)

\* sendMessage as it was before it took a budget: no Retries attribute
sendMessageWithoutRetries(url, retriesRemaining, message) ==
    [threw |-> IsBlank(message), QueueUrl |-> url, MessageBody |-> message,
     MessageAttributes |-> NoAttributes]

\* sendMessage with the test "!message" alone
sendMessageNoTrim(url, retriesRemaining, message) ==
    IF message = <<>>
    THEN [threw |-> TRUE, QueueUrl |-> url, MessageBody |-> message,
          MessageAttributes |-> NoAttributes]
    ELSE [threw |-> FALSE, QueueUrl |-> url, MessageBody |-> message,
          MessageAttributes |-> RetriesAttr(NumToString(retriesRemaining))]

\* the synchronous part of sendMessage: an SQSHandlerError is thrown for a
\* blank body; otherwise the request carries the body and, retriesRemaining
\* being a number, a Retries attribute whose StringValue is `${retriesRemaining}`
sendMessage(url, retriesRemaining, message) ==
    IF IsBlank(message)
    THEN [threw |-> TRUE, QueueUrl |-> url, MessageBody |-> message,
          MessageAttributes |-> NoAttributes]
    ELSE [threw |-> FALSE, QueueUrl |-> url, MessageBody |-> message,
          MessageAttributes |-> RetriesAttr(NumToString(retriesRemaining))]

----------------------------------------------------------------------------
(* The retry policy, handleSQSError *)

\* lines 73-79: the budget read from the message; reading
\* MessageAttributes["Retries"] of a message without attributes throws, which
\* is caught, logged, and gives 0
ReadRetries(message) ==
    IF message.Retries.kind = "absent"
    THEN [remainingRetries |-> Num(0), logged |-> TRUE]
    ELSE [remainingRetries |-> ParseInt(message.Retries), logged |-> FALSE]

\* the choice without "remainingRetries -= 1"
ChooseHandlerNoDecrement(remainingRetries) ==
    IF Falsy(remainingRetries) \/ remainingRetries.v <= 0
    THEN [errorHandler |-> "dlq", remainingRetries |-> remainingRetries]
    ELSE [errorHandler |-> "primary", remainingRetries |-> remainingRetries]

\* the choice with the test "remainingRetries < 0" alone
ChooseHandlerNegativeOnly(remainingRetries) ==
    IF ~remainingRetries.nan /\ remainingRetries.v < 0
    THEN [errorHandler |-> "dlq", remainingRetries |-> remainingRetries]
    ELSE [errorHandler |-> "primary",
          remainingRetries |-> IF remainingRetries.nan THEN NaN
                               ELSE Num(remainingRetries.v - 1)]

\* the choice with "remainingRetries += 1" in place of the decrement
ChooseHandlerIncrement(remainingRetries) ==
    IF Falsy(remainingRetries) \/ remainingRetries.v <= 0
    THEN [errorHandler |-> "dlq", remainingRetries |-> remainingRetries]
    ELSE [errorHandler |-> "primary",
          remainingRetries |-> Num(remainingRetries.v + 1)]

\* lines 81-87: the queue chosen and the budget passed on
ChooseHandler(remainingRetries) ==
    IF Falsy(remainingRetries) \/ remainingRetries.v <= 0
    THEN [errorHandler |-> "dlq", remainingRetries |-> remainingRetries]
    ELSE [errorHandler |-> "primary",
          remainingRetries |-> Num(remainingRetries.v - 1)]

\* the text of the alert after sendAlert has added app_key to it
WithAppKey(body) == SubSeq(body, 1, Len(body) - 1) \o <<"k", "}">>

\* handleSQSError re-enqueueing the alert that sendAlert was given
handleSQSErrorSendsAlert(errorSource, message, error) ==
    LET api == handleApiError("BigPanda API", error)
        read == ReadRetries(message)
        choice == ChooseHandler(read.remainingRetries)
        call == sendMessage(choice.errorHandler, choice.remainingRetries,
                            WithAppKey(message.Body))
    IN  IF api.threw
        THEN [threw |-> TRUE, lines |-> api.lines, called |-> FALSE, call |-> call]
        ELSE [threw |-> call.threw,
              lines |-> api.lines \cup
                        (IF read.logged THEN {"No Retries Provided"} ELSE {}),
              called |-> ~call.threw,
              call |-> call]

\* handleSQSError with the budget kept in the process, counted down with
\* every invocation, in place of the budget the message carries
handleSQSErrorSharedBudget(errorSource, message, error) ==
    LET api == handleApiError("BigPanda API", error)
        read == ReadRetries(message)
        choice == ChooseHandler(Num(MaxBudget - Cardinality(hist.policy)))
        call == sendMessage(choice.errorHandler, choice.remainingRetries,
                            message.Body)
    IN  IF api.threw
        THEN [threw |-> TRUE, lines |-> api.lines, called |-> FALSE, call |-> call]
        ELSE [threw |-> call.threw,
              lines |-> api.lines \cup
                        (IF read.logged THEN {"No Retries Provided"} ELSE {}),
              called |-> ~call.threw,
              call |-> call]

\* the synchronous body of handleSQSError(errorSource, message, error)
handleSQSError(errorSource, message, error) ==
    LET api == handleApiError("BigPanda API", error)
        read == ReadRetries(message)
        choice == ChooseHandler(read.remainingRetries)
        call == sendMessage(choice.errorHandler, choice.remainingRetries,
                            message.Body)
    IN  IF api.threw
        THEN [threw |-> TRUE, lines |-> api.lines, called |-> FALSE, call |-> call]
        ELSE [threw |-> call.threw,
              lines |-> api.lines \cup
                        (IF read.logged THEN {"No Retries Provided"} ELSE {}),
              called |-> ~call.threw,
              call |-> call]

----------------------------------------------------------------------------
(* AccuWeatherAPI.formatConditionsAsBigPandaAlert *)

\* JSON and parameter values: undefined, null, a string, a boolean, a number
Undefined == [kind |-> "undefined", s |-> <<>>, b |-> FALSE, n |-> 0]

Null == [kind |-> "null", s |-> <<>>, b |-> FALSE, n |-> 0]

Str(s) == [kind |-> "string", s |-> s, b |-> FALSE, n |-> 0]

Bool(b) == [kind |-> "boolean", s |-> <<>>, b |-> b, n |-> 0]

Number(n) == [kind |-> "number", s |-> <<>>, b |-> FALSE, n |-> n]

\* the truth value of v in a condition
Truthy(v) ==
    CASE v.kind = "string" -> v.s # <<>>
      [] v.kind = "boolean" -> v.b
      [] v.kind = "number" -> v.n # 0
      [] OTHER -> FALSE

\* the test "!v || v.trim() === ''" of a string parameter that may be unset
IsBlankValue(v) == ~Truthy(v) \/ IsBlank(v.s)

\* obj[name] of an object given by its members
Member(obj, name) == IF name \in DOMAIN obj THEN obj[name] ELSE Undefined

UpperChars ==
    <<"A", "B", "C", "D", "E", "F", "G", "H", "I", "J", "K", "L", "M",
      "N", "O", "P", "Q", "R", "S", "T", "U", "V", "W", "X", "Y", "Z">>

LowerChars ==
    <<"a", "b", "c", "d", "e", "f", "g", "h", "i", "j", "k", "l", "m",
      "n", "o", "p", "q", "r", "s", "t", "u", "v", "w", "x", "y", "z">>

\* String.prototype.toLowerCase
toLowerCase(s) ==
    [i \in 1..Len(s) |->
        IF \E j \in 1..26 : UpperChars[j] = s[i]
        THEN LowerChars[CHOOSE j \in 1..26 : UpperChars[j] = s[i]]
        ELSE s[i]]

\* String.prototype.includes
includes(s, t) ==
    \E i \in 0..(Len(s) - Len(t)) : SubSeq(s, i + 1, i + Len(t)) = t

sunny == <<"s", "u", "n", "n", "y">>

\* a conditions object: its members, or undefined
NoConditions == [kind |-> "undefined", members |-> <<>>]

Conditions(members) == [kind |-> "object", members |-> members]

\* the checks without those of the location name and the location ID
ValidationErrorConditionsOnly(location, locationID, conditionsJSON) ==
    IF conditionsJSON.kind = "undefined"
          \/ Cardinality(DOMAIN conditionsJSON.members) = 0
    THEN "valid response"
    ELSE "none"

\* lines 57-59: the message of the AccuWeatherError thrown for the
\* parameters, or "none"
ValidationError(location, locationID, conditionsJSON) ==
    IF IsBlankValue(location) THEN "location name"
    ELSE IF IsBlankValue(locationID) THEN "location ID"
    ELSE IF conditionsJSON.kind = "undefined"
            \/ Cardinality(DOMAIN conditionsJSON.members) = 0
         THEN "valid response"
    ELSE "none"

\* the status with the test "farenheit > 102"
StatusAbove102(farenheit, hasPrecipitation, weatherDescription) ==
    IF Truthy(hasPrecipitation) \/ farenheit.n > 102 \/ farenheit.n < 32
    THEN "critical"
    ELSE IF weatherDescription.kind # "string" THEN "TypeError"
    ELSE IF includes(toLowerCase(weatherDescription.s), sunny) THEN "ok"
    ELSE "warning"

\* the status without toLowerCase
StatusCaseSensitive(farenheit, hasPrecipitation, weatherDescription) ==
    IF Truthy(hasPrecipitation) \/ farenheit.n >= 102 \/ farenheit.n < 32
    THEN "critical"
    ELSE IF weatherDescription.kind # "string" THEN "TypeError"
    ELSE IF includes(weatherDescription.s, sunny) THEN "ok"
    ELSE "warning"

\* the status with let status = "ok" as the default
StatusDefaultOk(farenheit, hasPrecipitation, weatherDescription) ==
    IF Truthy(hasPrecipitation) \/ farenheit.n >= 102 \/ farenheit.n < 32
    THEN "critical"
    ELSE IF weatherDescription.kind # "string" THEN "TypeError"
    ELSE IF includes(toLowerCase(weatherDescription.s), sunny) THEN "ok"
    ELSE "ok"

\* lines 78-83: the status, for a conditions object that has a Temperature;
\* "TypeError" when toLowerCase is called on a WeatherText that is undefined
Status(farenheit, hasPrecipitation, weatherDescription) ==
    IF Truthy(hasPrecipitation) \/ farenheit.n >= 102 \/ farenheit.n < 32
    THEN "critical"
    ELSE IF weatherDescription.kind # "string" THEN "TypeError"
    ELSE IF includes(toLowerCase(weatherDescription.s), sunny) THEN "ok"
    ELSE "warning"

\* Math.floor(Math.random() * 101) + 1
RandomSuffixFromOne(k, grid) == (k * 101) \div grid + 1

\* Math.floor(Math.random() * 101), Math.random() being k / grid
RandomSuffix(k, grid) == (k * 101) \div grid

\* the alert with the suffix appended to the link as well
alertJSONSuffixInLink(location, locationID, members, status, suffix) ==
    [host |-> location,
     status |-> status,
     check |-> "Weather Check",
     incident_identifier |->
        locationID.s \o <<"_">> \o NumToString(Num(suffix)),
     condition |-> Member(members, "WeatherText"),
     precipitation |-> Member(members, "HasPrecipitation"),
     precipitation_type |-> Member(members, "PrecipitationType"),
     link |-> Str(Member(members, "Link").s \o NumToString(Num(suffix))),
     temperature_celsius |-> members.Temperature.Metric.Value,
     temperature_farenheit |-> members.Temperature.Imperial.Value]

\* lines 85-97: the alert
alertJSON(location, locationID, members, status, suffix) ==
    [host |-> location,
     status |-> status,
     check |-> "Weather Check",
     incident_identifier |->
        locationID.s \o <<"_">> \o NumToString(Num(suffix)),
     condition |-> Member(members, "WeatherText"),
     precipitation |-> Member(members, "HasPrecipitation"),
     precipitation_type |-> Member(members, "PrecipitationType"),
     link |-> Member(members, "Link"),
     temperature_celsius |-> members.Temperature.Metric.Value,
     temperature_farenheit |-> members.Temperature.Imperial.Value]

NoAlert ==
    [host |-> Undefined, status |-> "none", check |-> "none",
     incident_identifier |-> <<>>, condition |-> Undefined,
     precipitation |-> Undefined, precipitation_type |-> Undefined,
     link |-> Undefined, temperature_celsius |-> Undefined,
     temperature_farenheit |-> Undefined]

\* what a call gives its caller: an error thrown out of the call ("throw"),
\* or a promise that is resolved with the alert ("resolve")
Thrown(error, message) ==
    [how |-> "throw", error |-> error, message |-> message, alert |-> NoAlert]

Resolved(alert) ==
    [how |-> "resolve", error |-> "none", message |-> "none", alert |-> alert]

\* a promise that is rejected with the error
Rejected(error, message) ==
    [how |-> "reject", error |-> error, message |-> message, alert |-> NoAlert]

\* the formatter taking the status from the Celsius temperature
formatConditionsStatusFromMetric(location, locationID, conditionsJSON, suffix) ==
    LET invalid == ValidationError(location, locationID, conditionsJSON)
        members == conditionsJSON.members
    IN  IF invalid # "none" THEN Thrown("AccuWeatherError", invalid)
        ELSE IF "Temperature" \notin DOMAIN members
        THEN Thrown("TypeError", "Imperial of undefined")
        ELSE LET status == Status(members.Temperature.Metric.Value,
                                  Member(members, "HasPrecipitation"),
                                  Member(members, "WeatherText"))
             IN  IF status = "TypeError"
                 THEN Thrown("TypeError", "toLowerCase of undefined")
                 ELSE Resolved(alertJSON(location, locationID, members,
                                         status, suffix))

\* the formatter with the validation made inside the promise, as
\* src/src/apis/accuweather.ts has it: the error rejects the promise
formatConditionsInsidePromise(location, locationID, conditionsJSON, suffix) ==
    LET invalid == ValidationError(location, locationID, conditionsJSON)
        members == conditionsJSON.members
    IN  IF invalid # "none" THEN Rejected("AccuWeatherError", invalid)
        ELSE IF "Temperature" \notin DOMAIN members
        THEN Thrown("TypeError", "Imperial of undefined")
        ELSE LET status == Status(members.Temperature.Imperial.Value,
                                  Member(members, "HasPrecipitation"),
                                  Member(members, "WeatherText"))
             IN  IF status = "TypeError"
                 THEN Thrown("TypeError", "toLowerCase of undefined")
                 ELSE Resolved(alertJSON(location, locationID, members,
                                         status, suffix))

\* formatConditionsAsBigPandaAlert(location, locationID, conditionsJSON),
\* suffix being the value of Math.floor(Math.random() * 101) in this call
formatConditionsAsBigPandaAlert(location, locationID, conditionsJSON, suffix) ==
    LET invalid == ValidationError(location, locationID, conditionsJSON)
        members == conditionsJSON.members
    IN  IF invalid # "none" THEN Thrown("AccuWeatherError", invalid)
        ELSE IF "Temperature" \notin DOMAIN members
        THEN Thrown("TypeError", "Imperial of undefined")
        ELSE LET status == Status(members.Temperature.Imperial.Value,
                                  Member(members, "HasPrecipitation"),
                                  Member(members, "WeatherText"))
             IN  IF status = "TypeError"
                 THEN Thrown("TypeError", "toLowerCase of undefined")
                 ELSE Resolved(alertJSON(location, locationID, members,
                                         status, suffix))

----------------------------------------------------------------------------
(* State *)

\* the budget the POST /alert handler gives a fresh message
InitialRetries == 5

\* the logical messages: 1 is the one on the primary queue at startup, the
\* others are produced by POST /alert, the last MaxLocations of them for the
\* requests of the startup batch
Roots == 1..(1 + MaxPosts + MaxLocations)

\* StringValues a message found on the queue at startup may carry
SmallStringValues ==
    {NumToString(Num(i)) : i \in (0 - 1)..MaxBudget} \cup {<<"a", "b", "c">>}

InitStringValues ==
    SmallStringValues \cup {NumToString(Num(InitialRetries)), <<" ", "1", "x">>}

SmallAttributes ==
    {NoAttributes} \cup {RetriesAttr(sv) : sv \in SmallStringValues}

InitAttributes ==
    {NoAttributes, NoStringValue} \cup {RetriesAttr(sv) : sv \in InitStringValues}

\* the history of a run:
\*   received    messages handed to a handler
\*   threw       messages whose handler threw synchronously
\*   acked       messages deleted from the queue they were received from
\*   delivered   messages whose POST to BigPanda succeeded
\*   failed      messages whose delivery attempt failed, either way
\*   policy      invocations of handleSQSError: the failed message, the
\*               consumer, and whether the invocation got to its sendMessage
\*   calls       sendMessage calls made by handleSQSError
\*   enqueued    sendMessage calls that succeeded, with the new message
\*   sendFailed  messages whose re-enqueue was rejected
\*   direct      calls of sendMessage or of parseHttpError by a caller other
\*               than the program: the arguments, whether the call threw,
\*               and what it returned
EmptyHist ==
    [received |-> {}, threw |-> {}, acked |-> {}, delivered |-> {},
     failed |-> {}, policy |-> {}, calls |-> {}, enqueued |-> {},
     sendFailed |-> {}, direct |-> {}]

\* no call of the formatter is followed
NoFormat ==
    [location |-> Undefined, locationID |-> Undefined,
     conditionsJSON |-> NoConditions, calls |-> 0, results |-> <<>>]

\* the locations of the startup batch
Locations == 1..MaxLocations

BatchRoot(p) == 1 + MaxPosts + p

\* a request of the startup batch:
\*   stage      "none", then "posted" (got has sent it), "fetching" (the
\*              handler waits for AccuWeather), "enqueueing" (the handler
\*              waits for SQS), "responded", "done" (got's promise settled)
\*   responses  the answers the handler has sent: status code and body
\*   sent       the number of calls of res.send the handler has made
\*   upstream   the status code of AccuWeather's HTTP error, or 0
\*   failure    the step of the handler that failed, or "none"
\*   lines      what the batch logged when the promise settled
Request(name, id, stage) ==
    [locationName |-> name, locationID |-> id, stage |-> stage,
     responses |-> <<>>, sent |-> 0, upstream |-> 0, failure |-> "none",
     lines |-> {}]

\* the batch is not followed
NoRequests == [p \in Locations |-> Request(Undefined, Undefined, "none")]

\* one message is on the primary queue when the process starts
InitWith(bodies, attributes, prompts) ==
    /\ \E body \in bodies, attr \in attributes :
          queue = [q \in QueueNames |->
                     IF q = "primary" THEN {Message(1, 1, body, attr)} ELSE {}]
    /\ leased = [q \in QueueNames |-> {}]
    /\ acking = [q \in QueueNames |-> NoMessage]
    /\ deliveries = {}
    /\ sends = {}
    /\ nextId = [r \in Roots |-> IF r = 1 THEN 2 ELSE 1]
    /\ posts = 0
    /\ running = TRUE
    /\ crashes = 0
    /\ env \in [BIGPANDA_API_KEY : {<<"k", "e", "y">>, <<" ">>, <<>>},
                runDeadLetter : prompts]
    /\ log = {}
    /\ hist = EmptyHist
    /\ fmt = NoFormat
    /\ reqs = NoRequests

Init == InitWith(Bodies, InitAttributes, {"y", "n"})

\* startConsumer is called for the primary queue always, and for the
\* dead-letter queue when the prompt is answered "y"
ConsumerStarted(q) == q = "primary" \/ env.runDeadLetter = "y"

----------------------------------------------------------------------------
(* The consumer: sqs-consumer's poll, the handler, the delete *)

\* Consumer q receives m and calls the handler of app.ts:
\*     bigPandaAPI.sendAlert(key, JSON.parse(message.Body)).then(..).catch(..)
\* JSON.parse and the validation of sendAlert throw out of the handler, which
\* sqs-consumer reports as a processing_error, leaving the message on the
\* queue.  Otherwise the handler returns (undefined, not the promise) with the
\* POST pending, and sqs-consumer goes on to delete the message.
HandleMessage(q, m) ==
    /\ running
    /\ ConsumerStarted(q)
    /\ acking[q] = NoMessage
    /\ m \in queue[q]
    /\ queue' = [queue EXCEPT ![q] = @ \ {m}]
    /\ leased' = [leased EXCEPT ![q] = @ \cup {m}]
    /\ LET alert == JSONParse(m.Body)
           r == IF alert.ok THEN sendAlert(env.BIGPANDA_API_KEY, alert) ELSE "throw"
       IN  IF r = "POST"
           THEN /\ deliveries' = deliveries \cup {[src |-> q, msg |-> m]}
                /\ acking' = [acking EXCEPT ![q] = m]
                /\ log' = log
                /\ hist' = [hist EXCEPT !.received = @ \cup {m}]
           ELSE /\ deliveries' = deliveries
                /\ acking' = acking
                /\ log' = log \cup {"processing_error"}
                /\ hist' = [hist EXCEPT !.received = @ \cup {m},
                                        !.threw = @ \cup {m},
                                        !.failed = @ \cup {m}]
    /\ UNCHANGED <<fmt, reqs, sends, nextId, posts, running, crashes, env>>

\* sqs-consumer deletes the message whose handler returned
DeleteMessage(q) ==
    /\ running
    /\ acking[q] # NoMessage
    /\ leased' = [leased EXCEPT ![q] = @ \ {acking[q]}]
    /\ acking' = [acking EXCEPT ![q] = NoMessage]
    /\ hist' = [hist EXCEPT !.acked = @ \cup {acking[q]}]
    /\ UNCHANGED <<fmt, reqs, queue, deliveries, sends, nextId, posts,
                   running, crashes, env, log>>

\* a visibility timeout that also ends while the message is being deleted
VisibilityTimeoutAnyTime(q, m) ==
    /\ m \in leased[q]
    /\ leased' = [leased EXCEPT ![q] = @ \ {m}]
    /\ queue' = [queue EXCEPT ![q] = @ \cup {m}]
    /\ UNCHANGED <<fmt, reqs, acking, deliveries, sends, nextId, posts,
                   running, crashes, env, log, hist>>

\* the queue's visibility timeout: a received message that was not deleted
\* becomes visible again
VisibilityTimeout(q, m) ==
    /\ m \in leased[q]
    /\ acking[q] # m
    /\ leased' = [leased EXCEPT ![q] = @ \ {m}]
    /\ queue' = [queue EXCEPT ![q] = @ \cup {m}]
    /\ UNCHANGED <<fmt, reqs, acking, deliveries, sends, nextId, posts,
                   running, crashes, env, log, hist>>

\* the POST to BigPanda succeeds: .then(() => console.log(..))
DeliverOk(d) ==
    /\ running
    /\ d \in deliveries
    /\ deliveries' = deliveries \ {d}
    /\ log' = log \cup {"BigPanda Alert Successfully Processed!"}
    /\ hist' = [hist EXCEPT !.delivered = @ \cup {d.msg}]
    /\ UNCHANGED <<fmt, reqs, queue, leased, acking, sends, nextId, posts,
                   running, crashes, env>>

\* the POST to BigPanda is rejected with error:
\* .catch((error) => handleSQSError("BigPanda API", message, error))
DeliverFail(d, error) ==
    /\ running
    /\ d \in deliveries
    /\ deliveries' = deliveries \ {d}
    /\ LET h == handleSQSError("BigPanda API", d.msg, error)
       IN  /\ log' = log \cup h.lines
           /\ sends' = IF h.called
                       THEN sends \cup {[by |-> d.src, from |-> d.msg,
                                         root |-> d.msg.root, call |-> h.call]}
                       ELSE sends
           /\ hist' = [hist EXCEPT
                         !.failed = @ \cup {d.msg},
                         !.policy = @ \cup {[msg |-> d.msg, by |-> d.src,
                                              routed |-> ~h.threw]},
                         !.calls = IF h.called
                                   THEN @ \cup {[by |-> d.src, from |-> d.msg,
                                                 call |-> h.call]}
                                   ELSE @]
    /\ UNCHANGED <<fmt, reqs, queue, leased, acking, nextId, posts, running,
                   crashes, env>>

\* res.send with every call putting an answer on the wire
RespondAgain(r, code, body, failure) ==
    [r EXCEPT !.stage = "responded",
              !.responses = Append(@, [code |-> code, body |-> body]),
              !.sent = @ + 1,
              !.failure = failure]

\* res.status(code).send(..) of the POST /alert handler for request r, after
\* the step named by failure failed ("none" for the response of line 366); a
\* second response is not sent (send throws once the headers are sent)
Respond(r, code, body, failure) ==
    [r EXCEPT !.stage = "responded",
              !.responses = IF @ = <<>>
                            THEN <<[code |-> code, body |-> body]>> ELSE @,
              !.sent = @ + 1,
              !.failure = failure]

\* a pending sendMessage succeeds: the queue holds a new message; the
\* POST /alert handler answers the request it was made for (line 366)
SendOk(s) ==
    /\ running
    /\ s \in sends
    /\ nextId[s.root] <= MaxCopies
    /\ LET m == Message(s.root, nextId[s.root], s.call.MessageBody,
                        s.call.MessageAttributes)
       IN  /\ queue' = [queue EXCEPT ![s.call.QueueUrl] = @ \cup {m}]
           /\ hist' = [hist EXCEPT !.enqueued = @ \cup
                          {[by |-> s.by, from |-> s.from,
                            dest |-> s.call.QueueUrl, msg |-> m]}]
    /\ sends' = sends \ {s}
    /\ nextId' = [nextId EXCEPT ![s.root] = @ + 1]
    /\ log' = IF s.by \in QueueNames
              THEN log \cup {"Message Successfully Queued!"}
              ELSE log
    /\ reqs' = IF s.by = "producer" /\ s.root > 1 + MaxPosts
               THEN [reqs EXCEPT ![s.root - 1 - MaxPosts] =
                        Respond(@, 200, "MessageId", "none")]
               ELSE reqs
    /\ UNCHANGED <<fmt, leased, acking, deliveries, posts, running, crashes,
                   env>>

\* a pending sendMessage of the retry policy is rejected:
\* .catch((error) => handleApiError("SQS", error))
SendFail(s) ==
    /\ running
    /\ s \in sends
    /\ s.by # "producer"
    /\ sends' = sends \ {s}
    /\ log' = log \cup handleApiError("SQS", AWSError).lines
    /\ hist' = [hist EXCEPT !.sendFailed = @ \cup {s.from}]
    /\ UNCHANGED <<fmt, reqs, queue, leased, acking, deliveries, nextId,
                   posts, running, crashes, env>>

----------------------------------------------------------------------------
(* The producer: POST /alert *)

\* the enqueue with a budget one above that of line 365
PostAlertOneMore ==
    /\ running
    /\ posts < MaxPosts
    /\ posts' = posts + 1
    /\ LET call == sendMessage("primary", Num(InitialRetries + 1), AlertBody)
       IN  sends' = sends \cup {[by |-> "producer", from |-> NoMessage,
                                 root |-> posts + 2, call |-> call]}
    /\ UNCHANGED <<fmt, reqs, queue, leased, acking, deliveries, nextId,
                   running, crashes, env, log, hist>>

\* the enqueue of the POST /alert handler for a request whose fetch and
\* format succeed: sqsHandler.sendMessage(5, JSON.stringify(alertJSON))
PostAlert ==
    /\ running
    /\ posts < MaxPosts
    /\ posts' = posts + 1
    /\ LET call == sendMessage("primary", Num(InitialRetries), AlertBody)
       IN  sends' = sends \cup {[by |-> "producer", from |-> NoMessage,
                                 root |-> posts + 2, call |-> call]}
    /\ UNCHANGED <<fmt, reqs, queue, leased, acking, deliveries, nextId,
                   running, crashes, env, log, hist>>

----------------------------------------------------------------------------
(* The process stops and starts *)

\* the process stops: every pending promise and the consumers' work are gone;
\* what the queues hold stays
Crash ==
    /\ running
    /\ crashes < MaxCrashes
    /\ running' = FALSE
    /\ crashes' = crashes + 1
    /\ acking' = [q \in QueueNames |-> NoMessage]
    /\ deliveries' = {}
    /\ sends' = {}
    /\ UNCHANGED <<fmt, reqs, queue, leased, nextId, posts, env, log, hist>>

Restart ==
    /\ ~running
    /\ running' = TRUE
    /\ UNCHANGED <<fmt, reqs, queue, leased, acking, deliveries, sends,
                   nextId, posts, crashes, env, log, hist>>

----------------------------------------------------------------------------
(* Specifications *)

Next ==
    \/ \E q \in QueueNames : \E m \in queue[q] : HandleMessage(q, m)
    \/ \E q \in QueueNames : DeleteMessage(q)
    \/ \E q \in QueueNames : \E m \in leased[q] : VisibilityTimeout(q, m)
    \/ \E d \in deliveries : DeliverOk(d)
    \/ \E d \in deliveries : \E error \in DeliveryErrors : DeliverFail(d, error)
    \/ \E s \in sends : SendOk(s)
    \/ \E s \in sends : SendFail(s)

\* the consumer path, for a message found on the primary queue at startup
Spec == Init /\ [][Next]_vars

\* the consumer path when every step that can be taken is taken in the end:
\* the queue delivers visible messages, deletes complete, visibility
\* timeouts expire, POSTs and sendMessage calls complete
Fairness ==
    /\ WF_vars(\E q \in QueueNames : \E m \in queue[q] : HandleMessage(q, m))
    /\ WF_vars(\E q \in QueueNames : DeleteMessage(q))
    /\ WF_vars(\E q \in QueueNames : \E m \in leased[q] :
                   VisibilityTimeout(q, m))
    /\ WF_vars(\E d \in deliveries :
                   DeliverOk(d) \/ \E error \in DeliveryErrors :
                                      DeliverFail(d, error))
    /\ WF_vars(\E s \in sends : SendOk(s) \/ SendFail(s))

SpecLive == Init /\ [][Next]_vars /\ Fairness

\* the same program in a process that may stop and be started again
NextCrash == Next \/ Crash \/ Restart

InitCrash == InitWith({AlertBody, NotJsonBody}, SmallAttributes, {"n"})

SpecCrash == InitCrash /\ [][NextCrash]_vars

\* producer and consumer, starting from empty queues
InitPost ==
    /\ queue = [q \in QueueNames |-> {}]
    /\ leased = [q \in QueueNames |-> {}]
    /\ acking = [q \in QueueNames |-> NoMessage]
    /\ deliveries = {}
    /\ sends = {}
    /\ nextId = [r \in Roots |-> 1]
    /\ posts = 0
    /\ running = TRUE
    /\ crashes = 0
    /\ env \in [BIGPANDA_API_KEY : {<<"k", "e", "y">>, <<" ">>},
                runDeadLetter : {"y", "n"}]
    /\ log = {}
    /\ hist = EmptyHist
    /\ fmt = NoFormat
    /\ reqs = NoRequests

NextPost == Next \/ PostAlert

SpecPost == InitPost /\ [][NextPost]_vars

----------------------------------------------------------------------------
(* The formatter on its own *)

LocationNames == {Undefined, Str(<<>>), Str(<<" ", " ">>), Str(<<"N", "Y">>)}

LocationIDs == {Undefined, Str(<<>>), Str(<<" ">>), Str(<<"7">>)}

Farenheits == {31, 32, 62, 101, 102}

WeatherTexts ==
    {<<"S", "u", "n", "n", "y">>,
     <<"M", "O", "S", "T", "L", "Y", " ", "S", "U", "N", "N", "Y">>,
     <<"P", "a", "r", "t", "l", "y", " ", "c", "l", "o", "u", "d", "y">>,
     <<"S", "u", "n">>}

Temperature(f) ==
    [Imperial |-> [Value |-> Number(f)],
     Metric |-> [Value |-> Number(((f - 32) * 5) \div 9)]]

\* an element of the array AccuWeather answers with
Observation(f, p, text) ==
    Conditions([WeatherText |-> Str(text), HasPrecipitation |-> Bool(p),
                PrecipitationType |-> IF p THEN Str(<<"R", "a", "i", "n">>)
                                      ELSE Null,
                Temperature |-> Temperature(f), Link |-> Str(<<"l">>)])

\* the same without a WeatherText
ObservationNoText(f, p) ==
    Conditions([HasPrecipitation |-> Bool(p), Temperature |-> Temperature(f)])

\* AccuWeather's error object, which has none of the members read
ErrorObject ==
    Conditions([Code |-> Str(<<"5", "0", "3">>), Message |-> Str(<<"m">>)])

ConditionsValues ==
    {NoConditions, Conditions(<<>>), ErrorObject}
    \cup {Observation(f, p, text) :
             f \in Farenheits, p \in BOOLEAN, text \in WeatherTexts}
    \cup {ObservationNoText(f, p) : f \in Farenheits, p \in BOOLEAN}

ProcessAtRest ==
    /\ queue = [q \in QueueNames |-> {}]
    /\ leased = [q \in QueueNames |-> {}]
    /\ acking = [q \in QueueNames |-> NoMessage]
    /\ deliveries = {}
    /\ sends = {}
    /\ nextId = [r \in Roots |-> 1]
    /\ posts = 0
    /\ running = TRUE
    /\ crashes = 0
    /\ env = [BIGPANDA_API_KEY |-> <<"k", "e", "y">>, runDeadLetter |-> "n"]
    /\ log = {}
    /\ hist = EmptyHist

\* one call of formatConditionsAsBigPandaAlert with the arguments of fmt;
\* Math.random() gives k / RandomGrid
FormatCall(k) ==
    /\ Len(fmt.results) < fmt.calls
    /\ fmt' = [fmt EXCEPT !.results =
                  Append(@, formatConditionsAsBigPandaAlert(
                                fmt.location, fmt.locationID,
                                fmt.conditionsJSON,
                                RandomSuffix(k, RandomGrid)))]
    /\ UNCHANGED <<queue, leased, acking, deliveries, sends, nextId, posts,
                   running, crashes, env, log, hist, reqs>>

NextFormat == \E k \in 0..(RandomGrid - 1) : FormatCall(k)

\* one call, for every combination of arguments
InitFormat ==
    /\ ProcessAtRest
    /\ \E location \in LocationNames, locationID \in LocationIDs,
          conditionsJSON \in ConditionsValues :
          fmt = [location |-> location, locationID |-> locationID,
                 conditionsJSON |-> conditionsJSON, calls |-> 1,
                 results |-> <<>>]
    /\ reqs = NoRequests

SpecFormat == InitFormat /\ [][NextFormat]_vars

\* two calls with the same arguments
InitFormatTwice ==
    /\ ProcessAtRest
    /\ \E f \in {62, 102}, text \in WeatherTexts :
          fmt = [location |-> Str(<<"N", "Y">>), locationID |-> Str(<<"7">>),
                 conditionsJSON |-> Observation(f, FALSE, text), calls |-> 2,
                 results |-> <<>>]
    /\ reqs = NoRequests

SpecFormatTwice == InitFormatTwice /\ [][NextFormat]_vars

\* what a second observation may differ in from the first
Aspects ==
    {"location", "locationID", "Link", "Celsius", "PrecipitationType", "all"}

\* the arguments args of a call with the aspect changed
Vary(args, aspect) ==
    LET on(a) == aspect \in {a, "all"}
        members == args.conditionsJSON.members
    IN  [location |-> IF on("location") THEN Str(<<"L", "A">>)
                      ELSE args.location,
         locationID |-> IF on("locationID") THEN Str(<<"8">>)
                        ELSE args.locationID,
         conditionsJSON |->
            [args.conditionsJSON EXCEPT !.members =
                [members EXCEPT
                    !.Link = IF on("Link") THEN Str(<<"m">>) ELSE @,
                    !.Temperature.Metric.Value =
                        IF on("Celsius") THEN Number(40) ELSE @,
                    !.PrecipitationType =
                        IF on("PrecipitationType")
                        THEN Str(<<"S", "n", "o", "w">>) ELSE @]]]

\* the second call: formatConditionsAsBigPandaAlert with the arguments of
\* fmt.other
FormatCallOther(k) ==
    /\ Len(fmt.results) = fmt.calls
    /\ fmt.calls = 1
    /\ fmt' = [fmt EXCEPT !.results =
                  Append(@, formatConditionsAsBigPandaAlert(
                                fmt.other.location, fmt.other.locationID,
                                fmt.other.conditionsJSON,
                                RandomSuffix(k, RandomGrid)))]
    /\ UNCHANGED <<queue, leased, acking, deliveries, sends, nextId, posts,
                   running, crashes, env, log, hist, reqs>>

NextFormatPair ==
    \E k \in 0..(RandomGrid - 1) : FormatCall(k) \/ FormatCallOther(k)

\* two calls for two observations with the same Fahrenheit temperature,
\* precipitation flag and text
InitFormatPair ==
    /\ ProcessAtRest
    /\ \E f \in {31, 62}, p \in BOOLEAN,
          text \in {<<"S", "u", "n", "n", "y">>, <<"S", "u", "n">>},
          aspect \in Aspects :
          LET args == [location |-> Str(<<"N", "Y">>),
                       locationID |-> Str(<<"7">>),
                       conditionsJSON |-> Observation(f, p, text)]
          IN  fmt = [location |-> args.location,
                     locationID |-> args.locationID,
                     conditionsJSON |-> args.conditionsJSON, calls |-> 1,
                     results |-> <<>>, other |-> Vary(args, aspect)]
    /\ reqs = NoRequests

SpecFormatPair == InitFormatPair /\ [][NextFormatPair]_vars

----------------------------------------------------------------------------
(* SQSHandler.sendMessage called on its own *)

CallBudgets == {Num(0), Num(InitialRetries), Num(0 - 1), NaN}

CallBodies == {<<>>, <<" ">>, <<" ", " ">>, AlertBody, NotJsonBody}

\* sqsHandler.sendMessage(retriesRemaining, message) by any caller
SendMessageCall(retriesRemaining, message) ==
    /\ running
    /\ Cardinality(hist.direct) < MaxCalls
    /\ LET call == sendMessage("primary", retriesRemaining, message)
       IN  /\ hist' = [hist EXCEPT !.direct = @ \cup
                          {[retriesRemaining |-> retriesRemaining,
                            message |-> message, threw |-> call.threw]}]
           /\ sends' = IF call.threw THEN sends
                       ELSE sends \cup {[by |-> "caller", from |-> NoMessage,
                                         root |-> 1, call |-> call]}
    /\ UNCHANGED <<queue, leased, acking, deliveries, nextId, posts, running,
                   crashes, env, log, fmt, reqs>>

NextSend ==
    \/ \E retriesRemaining \in CallBudgets, message \in CallBodies :
          SendMessageCall(retriesRemaining, message)
    \/ \E s \in sends : SendOk(s)

InitSend == ProcessAtRest /\ fmt = NoFormat /\ reqs = NoRequests

SpecSend == InitSend /\ [][NextSend]_vars

----------------------------------------------------------------------------
(* parseHttpError called on its own *)

ErrorSources == {"AccuWeather API", "BigPanda API"}

\* the responses of got HTTPErrors by what parseHttpError reads of them:
\* the body is an object or a string; an object may have a "response" member
\* with a status, and a Message; a string has neither
Responses ==
    {r \in [response : {TRUE}, bodyType : {"object", "string"},
            hasResponse : BOOLEAN,
            status : {<<>>, <<" ">>, <<"e", "r", "r">>},
            Message : {<<>>, <<"m">>}, statusCode : {401, 503}] :
        /\ r.bodyType = "string" => ~r.hasResponse /\ r.Message = <<>>
        /\ ~r.hasResponse => r.status = <<>>}

\* parseHttpError(errorSource, response) by any caller
ParseHttpErrorCall(errorSource, response) ==
    /\ running
    /\ Cardinality(hist.direct) < MaxCalls
    /\ LET parsed == parseHttpError(errorSource, response)
       IN  hist' = [hist EXCEPT !.direct = @ \cup
                       {[errorSource |-> errorSource, response |-> response,
                         threw |-> parsed.threw,
                         statusCode |-> parsed.statusCode,
                         errorMessage |-> parsed.errorMessage]}]
    /\ UNCHANGED <<queue, leased, acking, deliveries, sends, nextId, posts,
                   running, crashes, env, log, fmt, reqs>>

NextParse ==
    \E errorSource \in ErrorSources, response \in Responses :
        ParseHttpErrorCall(errorSource, response)

SpecParse == InitSend /\ [][NextParse]_vars

----------------------------------------------------------------------------
(* The formatter under the unit test "Successful Conversion" *)

location_name == Str(<<"l", "o", "c", "a", "t", "i", "o", "n">>)

locationId == Str(<<"l", "o", "c", "a", "t", "i", "o", "n", "_", "i", "d">>)

PartlyCloudy == <<"P", "a", "r", "t", "l", "y", " ", "c", "l", "o", "u", "d", "y">>

\* responses["200"][0]; the Link is abbreviated, 16.7 is written in tenths
Sample200 ==
    Conditions([EpochTime |-> Number(1618976393),
                WeatherText |-> Str(PartlyCloudy),
                WeatherIcon |-> Number(3),
                HasPrecipitation |-> Bool(FALSE),
                PrecipitationType |-> Null,
                IsDayTime |-> Bool(FALSE),
                Temperature |-> [Metric |-> [Value |-> Number(167)],
                                 Imperial |-> [Value |-> Number(62)]],
                MobileLink |-> Str(<<"m">>),
                Link |-> Str(<<"w">>)])

\* a member of a JSON text: JSON.stringify leaves out undefined members
JSONMember(key, v) == IF v.kind = "undefined" THEN <<>> ELSE <<<<key, v>>>>

\* JSON.stringify(alertJSON): the members in the order they were written
SerializeAlert(alert) ==
    JSONMember("host", alert.host)
    \o <<<<"status", alert.status>>, <<"check", alert.check>>,
         <<"incident_identifier", alert.incident_identifier>>>>
    \o JSONMember("condition", alert.condition)
    \o JSONMember("precipitation", alert.precipitation)
    \o JSONMember("precipitation_type", alert.precipitation_type)
    \o JSONMember("link", alert.link)
    \o JSONMember("temperature_celsius", alert.temperature_celsius)
    \o JSONMember("temperature_farenheit", alert.temperature_farenheit)

\* JSON.stringify(responses["bigPandaAlert"])
bigPandaAlert ==
    <<<<"host", Str(<<"l", "o", "c", "a", "t", "i", "o", "n">>)>>,
      <<"status", "warning">>,
      <<"check", "Partly cloudy">>,
      <<"incident_identifier", <<"l", "o", "c", "a", "t", "i", "o", "n", "_", "i", "d">>>>,
      <<"condition", Str(PartlyCloudy)>>,
      <<"precipitation", Bool(FALSE)>>,
      <<"precipitation_type", Null>>,
      <<"link", Str(<<"w">>)>>,
      <<"temperature_celsius", Number(167)>>,
      <<"temperature_farenheit", Number(62)>>>>

\* a call with sinon.stub(Math, "random").returns(1)
FormatCallStubbed == FormatCall(RandomGrid)

\* the arguments of the unit tests: those of SpecFormat and the sample
InitFixture ==
    /\ ProcessAtRest
    /\ \E location \in LocationNames \cup {location_name},
          locationID \in LocationIDs \cup {locationId},
          conditionsJSON \in ConditionsValues \cup {Sample200} :
          fmt = [location |-> location, locationID |-> locationID,
                 conditionsJSON |-> conditionsJSON, calls |-> 1,
                 results |-> <<>>]
    /\ reqs = NoRequests

SpecFixture == InitFixture /\ [][FormatCallStubbed]_vars

----------------------------------------------------------------------------
(* The startup batch and the POST /alert handler for its requests *)

\* JSON.stringify(alertJSON) as an abbreviated JSON text (see AlertBody)
JSONStringify(alert) ==
    <<"{">>
    \o (IF alert.host.kind = "string" THEN <<"h">> ELSE <<>>)
    \o (IF alert.status = "none" THEN <<>>
        ELSE IF alert.status = "" THEN <<"b">> ELSE <<"s">>)
    \o <<"}">>

\* a got HTTPError of AccuWeather: the body is its error JSON {Code, Message}
AccuWeatherHTTPError ==
    [response |-> TRUE, bodyType |-> "object", hasResponse |-> FALSE,
     status |-> <<>>, Message |-> <<"m">>, statusCode |-> 503]

\* the same for a key AccuWeather does not accept
AccuWeatherUnauthorized ==
    [response |-> TRUE, bodyType |-> "object", hasResponse |-> FALSE,
     status |-> <<>>, Message |-> <<"u">>, statusCode |-> 401]

\* an HTTPError whose body is a text, not AccuWeather's JSON
AccuWeatherTextError ==
    [response |-> TRUE, bodyType |-> "string", hasResponse |-> FALSE,
     status |-> <<>>, Message |-> <<>>, statusCode |-> 502]

FetchErrors ==
    {AccuWeatherHTTPError, AccuWeatherUnauthorized, AccuWeatherTextError,
     RequestError}

\* the got HTTPError the batch gets for a 4xx or 5xx answer of POST /alert:
\* the body is the text the handler sent
AlertHTTPError ==
    [response |-> TRUE, bodyType |-> "string", hasResponse |-> FALSE,
     status |-> <<>>, Message |-> <<>>, statusCode |-> 400]

\* what AccuWeather answers with, body[0] of it: a full element, nothing
\* (an empty array), an object without Temperature
FetchedConditions ==
    {Observation(62, FALSE, <<"S", "u", "n", "n", "y">>), NoConditions,
     ErrorObject}

\* the catch of the batch with the error source of the consumers
BatchCatchAsBigPanda(error) == handleApiError("BigPanda API", error)

\* line 432: .catch((error) => handleApiError("AccuWeather API", error))
BatchCatch(error) == handleApiError("AccuWeather API", error)

\* lines 356-363: the handler checks the request, answers 400 for a blank
\* name or ID and goes on; fetchCurrentConditions throws for a blank ID,
\* otherwise the GET is pending
AlertRequest(p) ==
    /\ running
    /\ reqs[p].stage = "posted"
    /\ LET r == reqs[p]
           checked ==
               IF IsBlankValue(r.locationName)
               THEN Respond(r, 400, "location name", "request")
               ELSE IF IsBlankValue(r.locationID)
               THEN Respond(r, 400, "location ID", "request")
               ELSE r
       IN  reqs' = [reqs EXCEPT ![p] =
                       IF IsBlankValue(r.locationID)
                       THEN [checked EXCEPT !.stage = "responded"]
                       ELSE [checked EXCEPT !.stage = "fetching"]]
    /\ UNCHANGED <<queue, leased, acking, deliveries, sends, nextId, posts,
                   running, crashes, env, log, hist, fmt>>

\* lines 364-365: the GET succeeds with conditionsJSON as body[0]; the alert
\* is formatted and sendMessage(5, JSON.stringify(alertJSON)) called; an
\* error thrown in either is caught and answered with 500 (line 374)
FetchOk(p, conditionsJSON, k) ==
    /\ running
    /\ reqs[p].stage = "fetching"
    /\ LET r == reqs[p]
           f == formatConditionsAsBigPandaAlert(
                    r.locationName, r.locationID, conditionsJSON,
                    RandomSuffix(k, RandomGrid))
           call == sendMessage("primary", Num(InitialRetries),
                               JSONStringify(f.alert))
       IN  IF f.how # "resolve"
           THEN /\ reqs' = [reqs EXCEPT ![p] = Respond(r, 500, "error.message", "format")]
                /\ sends' = sends
           ELSE IF call.threw
           THEN /\ reqs' = [reqs EXCEPT ![p] =
                               Respond(r, 500, "error.message", "enqueue")]
                /\ sends' = sends
           ELSE /\ reqs' = [reqs EXCEPT ![p].stage = "enqueueing"]
                /\ sends' = sends \cup {[by |-> "producer", from |-> NoMessage,
                                          root |-> BatchRoot(p), call |-> call]}
    /\ UNCHANGED <<queue, leased, acking, deliveries, nextId, posts, running,
                   crashes, env, log, hist, fmt>>

\* lines 367-376: the GET is rejected; an HTTPError is answered with the
\* status code of AccuWeather, any other error with 500
FetchFail(p, error) ==
    /\ running
    /\ reqs[p].stage = "fetching"
    /\ LET parsed == parseHttpError("AccuWeather API", error)
       IN  reqs' = [reqs EXCEPT ![p] =
                       IF error.response /\ parsed.threw
                       THEN [@ EXCEPT !.stage = "responded",
                                      !.failure = "fetch"]
                       ELSE IF error.response
                       THEN Respond([@ EXCEPT !.upstream = error.statusCode],
                                    error.statusCode, parsed.errorMessage,
                                    "fetch")
                       ELSE Respond(@, 500, "error.message", "fetch")]
    /\ UNCHANGED <<queue, leased, acking, deliveries, sends, nextId, posts,
                   running, crashes, env, log, hist, fmt>>

\* the sendMessage of the handler is rejected: answered with 500 (line 374)
ProducerSendFail(s) ==
    /\ running
    /\ s \in sends
    /\ s.by = "producer"
    /\ sends' = sends \ {s}
    /\ reqs' = IF s.root > 1 + MaxPosts
               THEN [reqs EXCEPT ![s.root - 1 - MaxPosts] =
                        Respond(@, 500, "error.message", "enqueue")]
               ELSE reqs
    /\ UNCHANGED <<queue, leased, acking, deliveries, nextId, posts, running,
                   crashes, env, log, hist, fmt>>

\* line 432: got's promise for the request settles: the body is logged for
\* a 2xx answer, the HTTPError is handed to handleApiError otherwise
BatchSettle(p) ==
    /\ running
    /\ reqs[p].stage = "responded"
    /\ reqs[p].responses # <<>>
    /\ LET lines == IF reqs[p].responses[1].code = 200 THEN {"body"}
                    ELSE BatchCatch(AlertHTTPError).lines
       IN  /\ log' = log \cup lines
           /\ reqs' = [reqs EXCEPT ![p].stage = "done", ![p].lines = lines]
    /\ UNCHANGED <<queue, leased, acking, deliveries, sends, nextId, posts,
                   running, crashes, env, hist, fmt>>

\* the steps of the request of location p
BatchStep(p) ==
    \/ AlertRequest(p)
    \/ \E conditionsJSON \in FetchedConditions, k \in 0..(RandomGrid - 1) :
          FetchOk(p, conditionsJSON, k)
    \/ \E error \in FetchErrors : FetchFail(p, error)
    \/ \E s \in sends : s.root = BatchRoot(p) /\ SendOk(s)
    \/ \E s \in sends : s.root = BatchRoot(p) /\ ProducerSendFail(s)
    \/ BatchSettle(p)

\* the same with the request of location 1 replaced by a request of any
\* client, with any location name and location ID
InitAlert ==
    /\ ProcessAtRest
    /\ fmt = NoFormat
    /\ \E name \in LocationNames, id \in LocationIDs :
          reqs = [p \in Locations |->
                    IF p = 1 THEN Request(name, id, "posted")
                    ELSE Request(Str(<<"N", "Y">>), Str(NatToString(p)),
                                 "posted")]

NextBatch == \E p \in Locations : BatchStep(p)

\* lines 427-434: forEach has sent one request for every location
InitBatch ==
    /\ ProcessAtRest
    /\ fmt = NoFormat
    /\ reqs = [p \in Locations |->
                 Request(Str(<<"N", "Y">>), Str(NatToString(p)), "posted")]

\* the producer path for the startup batch
SpecBatch == InitBatch /\ [][NextBatch]_vars

\* the POST /alert handler for any request
SpecAlert == InitAlert /\ [][NextBatch]_vars

----------------------------------------------------------------------------
(* What the claims speak of *)

\* the budgets the claims are checked for
Budgets == 0..(MaxBudget + InitialRetries)

\* message m carries a Retries StringValue that reads as the integer i: the
\* decimal numeral of i, alone or between white space and a non-digit
HasBudget(m, i) ==
    /\ m.Retries.kind = "string"
    /\ \/ m.Retries.StringValue = NumToString(Num(i))
       \/ m.Retries.StringValue = <<" ">> \o NumToString(Num(i)) \o <<"x">>

\* message m carries no usable budget: no attribute, no StringValue, a
\* StringValue without a leading numeral, zero, or a negative integer
HasNoBudget(m) ==
    \/ m.Retries.kind \in {"absent", "nostring"}
    \/ /\ m.Retries.kind = "string"
       /\ \/ m.Retries.StringValue \in {<<"a", "b", "c">>, <<"N", "a", "N">>, <<"0">>}
          \/ Head(m.Retries.StringValue) = "-"

Requeued(m) == \E e \in hist.enqueued : e.from = m

InProcess(m) ==
    \/ \E d \in deliveries : d.msg = m
    \/ \E s \in sends : s.from = m

OnSomeQueue(m) == \E q \in QueueNames : m \in queue[q] \cup leased[q]

IsNegative(attr) ==
    /\ attr.kind = "string"
    /\ attr.StringValue # <<>>
    /\ Head(attr.StringValue) = "-"
    /\ Len(attr.StringValue) > 1
    /\ IsDigit(attr.StringValue[2])

\* C3: no message that the program enqueued and that sits on the primary or
\* the dead-letter queue carries a negative Retries attribute.
C3_NoNegativeBudgetQueued ==
    \A q \in QueueNames : \A m \in queue[q] \cup leased[q] :
        (\E e \in hist.enqueued : e.msg = m) => ~IsNegative(m.Retries)

\* the first copy of the logical message that is on the queue at startup
IsFirstCopy(m) == m.id = <<1, 1>>

\* what the primary consumer's retry policy enqueued, by destination
PrimaryRequeues ==
    {e \in hist.enqueued : e.by = "primary" /\ e.dest = "primary"}

PrimaryDeadLetters ==
    {e \in hist.enqueued : e.by = "primary" /\ e.dest = "dlq"}

C5_NoDequeuedMessageLost ==
    \A m \in hist.acked : m \in hist.delivered \/ Requeued(m) \/ InProcess(m)

\* C6: every message whose delivery attempt failed, be it a body that does
\* not parse, a validation error of sendAlert or a rejected POST, was handed
\* to handleSQSError.
C6_EveryFailureEntersPolicy ==
    \A m \in hist.failed : \E p \in hist.policy : p.msg = m

\* C7: no message received from the dead-letter queue is enqueued again on
\* any queue.
C7_DeadLetterIsTerminal ==
    \A e \in hist.enqueued : e.by # "dlq"

\* C8: a message is deleted from its queue only when its delivery has
\* succeeded or the retry policy's re-enqueue for it has completed.
C8_AckOnlyAfterOutcome ==
    [][\A m \in hist'.acked \ hist.acked : m \in hist.delivered \/ Requeued(m)]_vars

\* C9: when the process has stopped, every message a handler was given is
\* still on some queue (visible or leased), or was delivered, or was
\* re-enqueued.
C9_CrashLosesNothing ==
    ~running =>
        \A m \in hist.received :
            OnSomeQueue(m) \/ m \in hist.delivered \/ Requeued(m)

\* C10: a message whose re-enqueue by the retry policy was rejected has the
\* failure logged, is not deleted and stays on the queue it was received from.
C10_FailedRequeueKeepsMessage ==
    \A m \in hist.sendFailed :
        /\ "error.name error.message" \in log
        /\ m \notin hist.acked
        /\ OnSomeQueue(m)

\* the integers a Retries attribute is read as in the runs checked
AllBudgets == (0 - 1)..(MaxBudget + InitialRetries + 1)

FormatCalls == 1..Len(fmt.results)

\* the arguments of the calls: a location name and a location ID that are
\* not blank, and a conditions object with a Temperature
GoodLocation ==
    /\ fmt.location = Str(<<"N", "Y">>)
    /\ fmt.locationID = Str(<<"7">>)

HasTemperature ==
    /\ fmt.conditionsJSON.kind = "object"
    /\ "Temperature" \in DOMAIN fmt.conditionsJSON.members

ArgFarenheit == fmt.conditionsJSON.members.Temperature.Imperial.Value.n

ArgPrecipitation == fmt.conditionsJSON.members.HasPrecipitation.b

ArgHasText == "WeatherText" \in DOMAIN fmt.conditionsJSON.members

ArgText == fmt.conditionsJSON.members.WeatherText.s

\* the texts of WeatherTexts that contain "sunny" in some letter case
SunnyTexts ==
    {<<"S", "u", "n", "n", "y">>,
     <<"M", "O", "S", "T", "L", "Y", " ", "S", "U", "N", "N", "Y">>}

ArgCritical == ArgPrecipitation \/ ArgFarenheit >= 102 \/ ArgFarenheit < 32

C13_SunnyIsOk ==
    \A i \in FormatCalls :
        (GoodLocation /\ HasTemperature /\ ~ArgCritical /\ ArgHasText
            /\ ArgText \in SunnyTexts) =>
            /\ fmt.results[i].how = "resolve"
            /\ fmt.results[i].alert.status = "ok"

\* 101 degrees, no precipitation, "MOSTLY SUNNY": ok
C13_Witness ==
    /\ GoodLocation /\ HasTemperature
    /\ ArgFarenheit = 101 /\ ~ArgPrecipitation
    /\ ArgHasText /\ Head(ArgText) = "M"
    /\ Len(fmt.results) = 1
    /\ fmt.results[1].alert.status = "ok"

C15_IdentifiersDiffer ==
    \A i, j \in FormatCalls :
        (i < j /\ fmt.results[i].how = "resolve"
               /\ fmt.results[j].how = "resolve") =>
            fmt.results[i].alert.incident_identifier
                # fmt.results[j].alert.incident_identifier

\* alert a with its incident_identifier blanked
WithoutIdentifier(a) == [a EXCEPT !.incident_identifier = <<>>]

\* C16: two calls of the formatter with the same location name, location ID
\* and conditions, whatever Math.random() gives in each, resolve with alerts
\* that are equal in every member except incident_identifier.
C16_SameButIdentifier ==
    \A i, j \in FormatCalls :
        /\ fmt.results[i].how = fmt.results[j].how
        /\ WithoutIdentifier(fmt.results[i].alert)
              = WithoutIdentifier(fmt.results[j].alert)

\* two alerts for the same arguments with the suffixes 3 and 100
C16_Witness ==
    /\ Len(fmt.results) = 2
    /\ fmt.results[1].how = "resolve"
    /\ fmt.results[2].how = "resolve"
    /\ fmt.results[1].alert.incident_identifier = <<"7", "_", "3">>
    /\ fmt.results[2].alert.incident_identifier = <<"7", "_", "1", "0", "0">>

\* a location name or location ID that is absent, empty or white space
BlankArguments == {Undefined, Str(<<>>), Str(<<" ">>), Str(<<" ", " ">>)}

\* C17: whenever the location name or the location ID is absent, empty or
\* white space only, the call throws an AccuWeatherError to its caller and
\* gives no alert and no promise.
C17_BlankLocationThrows ==
    \A i \in FormatCalls :
        (fmt.location \in BlankArguments \/ fmt.locationID \in BlankArguments) =>
            /\ fmt.results[i].how = "throw"
            /\ fmt.results[i].error = "AccuWeatherError"
            /\ fmt.results[i].alert = NoAlert

\* a white-space location ID with a good name and a full conditions object
C17_Witness ==
    /\ fmt.location = Str(<<"N", "Y">>)
    /\ fmt.locationID = Str(<<" ">>)
    /\ HasTemperature /\ ArgHasText
    /\ Len(fmt.results) = 1
    /\ fmt.results[1].how = "throw"
    /\ fmt.results[1].message = "location ID"

\* C18: whenever the conditions are absent, an empty object, or an object
\* with none of Temperature, HasPrecipitation and WeatherText, the call
\* fails with an AccuWeatherError and with no other error.
C18_BadConditionsAccuWeatherError ==
    \A i \in FormatCalls :
        (\/ fmt.conditionsJSON.kind = "undefined"
         \/ DOMAIN fmt.conditionsJSON.members
               \cap {"Temperature", "HasPrecipitation", "WeatherText"} = {}) =>
            /\ fmt.results[i].how # "resolve"
            /\ fmt.results[i].error = "AccuWeatherError"

\* what the POST /alert handler enqueued
ProducerEnqueues == {e \in hist.enqueued : e.by = "producer"}

Settled(p) == reqs[p].stage = "done"

\* C20: in the startup batch, a request that failed in the fetch, the
\* format or the enqueue is logged when it settles; whatever happened to
\* the other requests, a request that has not settled can take its next
\* step, and a settled request without a failure has its message enqueued
\* on the primary queue.
C20_BatchToleratesFailures ==
    \A p \in Locations :
        /\ (Settled(p) /\ reqs[p].failure # "none") =>
              /\ reqs[p].lines = {"HTTP Error"}
              /\ "HTTP Error" \in log
        /\ ~Settled(p) => ENABLED BatchStep(p)
        /\ (Settled(p) /\ reqs[p].failure = "none") =>
              \E e \in ProducerEnqueues :
                  /\ e.msg.root = BatchRoot(p)
                  /\ e.dest = "primary"
                  /\ e.msg \in queue["primary"]

\* the first request failed in the format and was logged, the second has
\* its message on the queue
C20_Witness ==
    /\ Settled(1) /\ reqs[1].failure = "format"
    /\ reqs[1].lines = {"HTTP Error"}
    /\ Settled(2) /\ reqs[2].failure = "none"
    /\ \E m \in queue["primary"] : m.root = BatchRoot(2)

\* the handler has finished with the request of p
Answered(p) == reqs[p].stage \in {"responded", "done"}

BlankRequest(p) ==
    reqs[p].locationName \in BlankArguments
        \/ reqs[p].locationID \in BlankArguments

\* C21: a POST /alert request never has more than one answer, and has
\* exactly one when its handler has finished: 400 when the location name or
\* the location ID is missing or blank; otherwise 200 with the MessageId
\* when fetch, format and enqueue succeeded, and the status code of
\* AccuWeather with the message of parseHttpError when the fetch failed with
\* an HTTP error.
C21_ExactlyOneResponse ==
    \A p \in Locations :
        /\ Len(reqs[p].responses) <= 1
        /\ Answered(p) =>
              /\ Len(reqs[p].responses) = 1
              /\ BlankRequest(p) => reqs[p].responses[1].code = 400
              /\ (~BlankRequest(p) /\ reqs[p].failure = "none") =>
                    reqs[p].responses[1] = [code |-> 200, body |-> "MessageId"]
              /\ (~BlankRequest(p) /\ reqs[p].upstream # 0) =>
                    /\ reqs[p].responses[1].code = reqs[p].upstream
                    /\ reqs[p].responses[1].body \in {"detail", "body"}

\* a request with a blank name answered 400 once although the handler went
\* on to a second send, next to a request answered with AccuWeather's 401
C21_Witness ==
    /\ reqs[1].locationName = Str(<<" ", " ">>)
    /\ reqs[1].stage = "done"
    /\ reqs[1].sent = 2
    /\ reqs[1].responses = <<[code |-> 400, body |-> "location name"]>>
    /\ reqs[2].stage = "done"
    /\ reqs[2].responses = <<[code |-> 401, body |-> "detail"]>>

\* the arguments sendAlert refuses: an app key that is unset, empty or
\* blank; an alert that is null, an array, or has no host or status, or a
\* blank one
RefusedKeys == {<<>>, <<" ">>}

RefusedBodies ==
    {NullBody, ArrayBody, NoHostBody, NoStatusBody, BlankHostBody,
     BlankStatusBody}

\* a POST to BigPanda was made for message m
Posted(m) ==
    \/ \E d \in deliveries : d.msg = m
    \/ m \in hist.delivered
    \/ \E p \in hist.policy : p.msg = m

\* C22: whenever sendAlert is called with a refused app key or a refused
\* alert, it throws out of the handler and no POST to BigPanda is made.
C22_SendAlertRefuses ==
    \A m \in hist.received :
        (env.BIGPANDA_API_KEY \in RefusedKeys \/ m.Body \in RefusedBodies) =>
            /\ m \in hist.threw
            /\ ~Posted(m)

\* an alert with a blank host, received with a good app key, refused
C22_Witness ==
    \E m \in hist.threw :
        /\ m.Body = BlankHostBody
        /\ env.BIGPANDA_API_KEY = <<"k", "e", "y">>
        /\ deliveries = {}

\* C23: when the BigPanda app key is absent or blank, no consumer receives
\* a message.
C23_NoDequeueWithoutAppKey ==
    env.BIGPANDA_API_KEY \in RefusedKeys => hist.received = {}

\* C24: no invocation of handleSQSError throws: each gets to its routing
\* step and returns.
C24_PolicyNeverThrows ==
    \A p \in hist.policy : p.routed

\* the copies of logical message r that wait on a queue or wait to become
\* visible again, that are being delivered, and that are being re-enqueued
Waiting(r) ==
    {m \in UNION {queue[q] \cup (leased[q] \ {acking[q]}) : q \in QueueNames} :
        m.root = r}

Delivering(r) == {d \in deliveries : d.msg.root = r}

Rerouting(r) == {s \in sends : s.root = r}

C26_MatchesFixture ==
    \A i \in FormatCalls :
        (fmt.location = location_name /\ fmt.locationID = locationId
            /\ fmt.conditionsJSON = Sample200) =>
            /\ fmt.results[i].how = "resolve"
            /\ SerializeAlert(fmt.results[i].alert) = bigPandaAlert

\* a message body that is unset, empty or white space
BlankBodies == {<<>>, <<" ">>, <<" ", " ">>}

\* C27: whenever sendMessage is called with a body that is unset, empty or
\* white space, with any budget, it throws and no request with such a body
\* is pending or has put a message on a queue.
C27_BlankBodyThrows ==
    /\ \A c \in hist.direct : c.message \in BlankBodies => c.threw
    /\ \A s \in sends : s.call.MessageBody \notin BlankBodies
    /\ \A q \in QueueNames : \A m \in queue[q] : m.Body \notin BlankBodies

\* a call with budget 5 and a white-space body threw, a call with an alert
\* put its message on the queue
C27_Witness ==
    /\ [retriesRemaining |-> Num(5), message |-> <<" ", " ">>, threw |-> TRUE]
          \in hist.direct
    /\ Cardinality(hist.direct) = 2
    /\ \E m \in queue["primary"] : m.Body = AlertBody
    /\ sends = {}

\* C28: every invocation of handleSQSError for a failed message makes
\* exactly one sendMessage call, whatever the error is.
C28_ExactlyOneEnqueueAttempt ==
    \A p \in hist.policy :
        Cardinality({c \in hist.calls : c.from = p.msg /\ c.by = p.by}) = 1

\* C29: every sendMessage call of the retry policy, and every message it
\* enqueues, carries the body of the message that was received, so all the
\* copies of a logical message have the body of the first.
C29_BodyVerbatim ==
    /\ \A c \in hist.calls : c.call.MessageBody = c.from.Body
    /\ \A e \in hist.enqueued :
          e.by \in QueueNames => e.msg.Body = e.from.Body
    /\ \A e, f \in hist.enqueued : e.msg.root = f.msg.root =>
          e.msg.Body = f.msg.Body

\* the third copy of an alert, the deliveries of the first two having been
\* attempted
C29_Witness ==
    \E e, f \in hist.enqueued :
        /\ e.from.id = <<1, 1>> /\ e.from.Body = AlertBody
        /\ f.from = e.msg
        /\ f.msg.Body = AlertBody
        /\ f.msg \in queue["primary"]

\* the message found on the primary queue has been delivered, or a copy of
\* it is on the dead-letter queue
Terminal ==
    hist.delivered # {} \/ queue["dlq"] \cup leased["dlq"] # {}

\* C30: when every call completes and the queues keep delivering, the
\* message on the primary queue is in the end delivered or on the
\* dead-letter queue.
C30_EveryMessageSettles == <>Terminal

\* the validation of sendAlert refused message m: its body parsed, and
\* sendAlert threw a BigPandaError for the app key or the alert
Refused(m) == m \in hist.threw /\ JSONParse(m.Body).ok

\* C31: a message that sendAlert's validation refused is not given to a
\* handler again, and nothing is enqueued for it.
C31_InvalidInputNotRetried ==
    [][/\ \A q \in QueueNames : \A m \in queue[q] :
             Refused(m) => ~HandleMessage(q, m)
       /\ \A e \in hist'.enqueued : ~Refused(e.from)]_vars

\* message m carries no readable budget: no attributes, or a Retries
\* attribute that parseInt reads as NaN
Unparseable(m) == m.Retries.kind = "absent" \/ ParseInt(m.Retries).nan

\* C32: whenever handleSQSError has read the budget of a failed message
\* whose Retries attribute is absent or does not read as a number, the line
\* "No Retries Provided" has been logged.
C32_NoBudgetIsLogged ==
    \A p \in hist.policy :
        (p.routed /\ Unparseable(p.msg)) => "No Retries Provided" \in log

\* C33: the handler of a request whose location name or location ID is
\* missing or blank answers 400 and is done: it never waits for AccuWeather
\* or for SQS, and never calls res.send a second time.
C33_ReturnsAfterRefusal ==
    \A p \in Locations :
        BlankRequest(p) =>
            /\ reqs[p].stage \notin {"fetching", "enqueueing"}
            /\ reqs[p].sent <= 1

\* C34: any two sendMessage calls of the retry policy made for messages
\* with the same Retries attribute, by whichever consumer and after
\* whatever earlier messages, name the same queue and carry the same budget.
C34_PolicyIsStateless ==
    \A c, d \in hist.calls :
        c.from.Retries = d.from.Retries =>
            /\ c.call.QueueUrl = d.call.QueueUrl
            /\ c.call.MessageAttributes = d.call.MessageAttributes

\* the primary consumer and, after it, the dead-letter consumer have each
\* applied the policy to a copy with Retries "0"
C34_Witness ==
    \E c, d \in hist.calls :
        /\ c.by = "primary" /\ d.by = "dlq"
        /\ c.from.Retries = RetriesAttr(<<"0">>)
        /\ d.from.Retries = RetriesAttr(<<"0">>)
        /\ d.from.id # c.from.id
        /\ \E p \in hist.policy : p.msg.id \notin {c.from.id, d.from.id}

\* the three inputs of the status, of a conditions object
StatusInputs(conditionsJSON) ==
    <<conditionsJSON.members.Temperature.Imperial.Value,
      conditionsJSON.members.HasPrecipitation,
      conditionsJSON.members.WeatherText>>

\* C35: when two observations with the same Fahrenheit temperature,
\* precipitation flag and text have been formatted, whatever else they and
\* the locations differ in, the two alerts have the same status.
C35_StatusOfThreeInputs ==
    (/\ Len(fmt.results) = 2
     /\ StatusInputs(fmt.conditionsJSON) = StatusInputs(fmt.other.conditionsJSON))
        => /\ fmt.results[1].how = "resolve"
           /\ fmt.results[2].how = "resolve"
           /\ fmt.results[1].alert.status = fmt.results[2].alert.status

\* two sunny observations of 62 F formatted, the second for another
\* location, with another link, Celsius value and precipitation type
C35_Witness ==
    /\ Len(fmt.results) = 2
    /\ fmt.other.location # fmt.location
    /\ fmt.other.locationID # fmt.locationID
    /\ fmt.other.conditionsJSON.members.Link # fmt.conditionsJSON.members.Link
    /\ fmt.other.conditionsJSON.members.Temperature.Metric.Value = Number(40)
    /\ fmt.conditionsJSON.members.Temperature.Metric.Value = Number(16)
    /\ fmt.other.conditionsJSON.members.PrecipitationType
          # fmt.conditionsJSON.members.PrecipitationType
    /\ fmt.results[1].alert.status = "ok"
    /\ fmt.results[2].alert.status = "ok"
    /\ fmt.results[2].alert.temperature_celsius = Number(40)

\* the copies of logical message r that were put on the primary queue
PrimaryCopies(r) ==
    {e.msg : e \in {f \in hist.enqueued : f.dest = "primary" /\ f.msg.root = r}}

\* the delivery attempts of the primary consumer for logical message r
PrimaryAttempts(r) == PrimaryCopies(r) \cap hist.received

C37_BlankRequestEnqueuesNothing ==
    \A p \in Locations :
        BlankRequest(p) =>
            /\ reqs[p].stage # "enqueueing"
            /\ reqs[p].failure # "enqueue"
            /\ \A s \in sends : s.root # BatchRoot(p)
            /\ \A e \in hist.enqueued : e.msg.root # BatchRoot(p)
            /\ \A q \in QueueNames : \A m \in queue[q] : m.root # BatchRoot(p)

\* a request with a blank name and a good ID whose fetch succeeded has
\* ended in the formatter, next to a request whose message is on the queue
C37_Witness ==
    /\ reqs[1].locationName = Str(<<" ", " ">>)
    /\ reqs[1].locationID = Str(<<"7">>)
    /\ reqs[1].stage = "done"
    /\ reqs[1].failure = "format"
    /\ \E m \in queue["primary"] : m.root = BatchRoot(2)
    /\ \A m \in queue["primary"] : m.root # BatchRoot(1)

\* the identifiers the formatter may give location ID id
Identifiers(id) == {id \o <<"_">> \o NumToString(Num(n)) : n \in 0..100}

\* C38: the incident_identifier of every alert the formatter resolves with
\* is the location ID, "_" and the numeral of an integer in 0..100, so a
\* location ID has at most 101 identifiers.
C38_SuffixInRange ==
    /\ \A i \in FormatCalls :
          fmt.results[i].how = "resolve" =>
              fmt.results[i].alert.incident_identifier
                  \in Identifiers(fmt.locationID.s)
    /\ Cardinality(Identifiers(<<"7">>)) <= 101

\* the largest suffix: Math.random() just below 1 gives 100
C38_Witness ==
    /\ Len(fmt.results) = 1
    /\ fmt.results[1].how = "resolve"
    /\ fmt.results[1].alert.incident_identifier = <<"7", "_", "1", "0", "0">>

\* the detail parseHttpError reads for the source
Detail(errorSource, response) ==
    IF errorSource = "AccuWeather API" THEN response.Message
    ELSE response.status

\* C39: every call of parseHttpError returns, without throwing, the status
\* code of the response and a message made of the detail of the source when
\* that is not blank, else of the body when it is a string, else of the
\* status message.
C39_ParseHttpErrorTotal ==
    \A c \in hist.direct :
        /\ ~c.threw
        /\ c.statusCode = c.response.statusCode
        /\ c.errorMessage =
              IF ~IsBlank(Detail(c.errorSource, c.response)) THEN "detail"
              ELSE IF c.response.bodyType = "string" THEN "body"
              ELSE "statusMessage"

====
